---- MODULE Spec2Model ----
(***************************************************************************)
(* A model of metisoft-facebook-auth (src/src/index.js): the Express       *)
(* middleware facebookAuthMiddleware, the token -> user cache              *)
(* __mapAccessToken2UserData, the resolver __getUserDataFromAccessToken    *)
(* and the site_user lookup-or-create of __saveUserToDb.                   *)
(*                                                                         *)
(* Node runs one callback at a time, so every action below is one callback *)
(* run to its end: the synchronous body of the middleware, the callback of *)
(* the Graph API request, of the SELECT, of the INSERT, the middleware's   *)
(* own .then and .catch callbacks and the callback of session.save.        *)
(* Several requests are in flight at once and their callbacks interleave.  *)
(*                                                                         *)
(* Spec serves requests of every shape (route, body token, session,        *)
(* provider response, store outcome, next() raising or not) one at a time. *)
(* SpecRace interleaves the callbacks of NumReqs requests in every order,  *)
(* with the token in the body and a smaller set of provider responses.     *)
(*                                                                         *)
(* The store and the provider are outside the repository: a SELECT or an   *)
(* INSERT takes effect in the step in which its callback runs, and the     *)
(* SELECT that matches no row yields an object without id, as line 162     *)
(* expects.                                                                *)
(***************************************************************************)
EXTENDS Naturals, Sequences, FiniteSets, TLC

\* ------------------------------------------------------------------ bounds

NumReqs == 2        \* requests that can be in flight at the same time
MaxRows == 2        \* rows the site_user table can hold; a further INSERT fails

Reqs == 1..NumReqs

\* ------------------------------------------------------------------ values

Tokens  == {"T1", "T2"}
FbIds   == {"F1", "F2"}
Names   == {"Ann", "Bob"}
Emails  == {"a@x.com", "b@x.com"}

UNDEFINED == "<undefined>"     \* the JavaScript value undefined
MISSING   == "<missing>"       \* a property an object does not have

LogoutUrl == "/services/userAuth/logout"
Urls      == {LogoutUrl, "/services/data"}

NULLFIELD == "<null>"

\* The JavaScript value null where a user record is expected.
NULL == [id |-> 0, facebookId |-> NULLFIELD, email |-> NULLFIELD, fullName |-> NULLFIELD]

\* The object squelQueryReturningOne yields when no row matches: no id.
NoRow == [id |-> 0, facebookId |-> MISSING, email |-> MISSING, fullName |-> MISSING]

\* JavaScript truthiness of a token-valued expression.
Truthy(v) == v # UNDEFINED /\ v # MISSING /\ v # ""

\* The property key a value is coerced to (obj[undefined] is obj["undefined"]).
ToPropertyKey(v) == IF v = UNDEFINED THEN "undefined" ELSE v

\* ------------------------------------------------------------------ inputs

\* req.body.facebookAccessToken: a token, the empty string, or nothing.
BodyTokens == Tokens \cup {UNDEFINED, ""}

\* req.session as the request arrives: absent, without user, with a user
\* that holds no token, or with a user that holds one.
NoSession == [present |-> FALSE, hasUser |-> FALSE, facebookAccessToken |-> UNDEFINED,
              destroyed |-> FALSE, save |-> "none"]

Session(hasUser, tok) ==
    [present |-> TRUE, hasUser |-> hasUser, facebookAccessToken |-> tok,
     destroyed |-> FALSE, save |-> "none"]

Sessions == {NoSession, Session(FALSE, UNDEFINED), Session(TRUE, UNDEFINED)}
            \cup {Session(TRUE, t) : t \in Tokens}

\* The profiles the Graph API serves: Ann (F1), whose name or email can differ
\* from one login to the next, and Bob (F2).
Profiles ==
    [kind : {"object"}, id : {"F1"}, name : Names, email : Emails]
    \cup {[kind |-> "object", id |-> "F2", name |-> "Bob", email |-> "b@x.com"]}

\* A JSON object that lacks one or more of the fields id, name, email.
IncompletePayloads ==
    [kind : {"object"}, id : {"F1", MISSING}, name : {"Ann", MISSING},
     email : {"a@x.com", MISSING}]
    \ Profiles

\* What the Graph API request settles with: a rejection (transport error or
\* non-2xx status), a body that is not JSON, or a JSON object.
FacebookResponses ==
    {[kind |-> "rejected", id |-> MISSING, name |-> MISSING, email |-> MISSING],
     [kind |-> "notJson",  id |-> MISSING, name |-> MISSING, email |-> MISSING]}
    \cup Profiles \cup IncompletePayloads

\* Before the Graph API request of a resolution has settled.
NoResponse == [kind |-> "none", id |-> MISSING, name |-> MISSING, email |-> MISSING]

\* ------------------------------------------------------------------ state

VARIABLES
    __mapAccessToken2UserData,  \* the cache: a function from its keys to records
    site_user,                  \* the table, a sequence of rows; row i has id i
    pc,                         \* per request: where its promise chain stands
    url,                        \* per request: req.url
    body,                       \* per request: req.body.facebookAccessToken
    accessToken,                \* per request: the middleware's local accessToken
    session,                    \* per request: req.session
    userDataFromFacebook,       \* per request: what the Graph API request settled with
    userData,                   \* per request: the value travelling down the chain
    locals,                     \* per request: res.locals.metisoft.user
    sent,                       \* per request: the body given to res.send, or ""
    nextCalls,                  \* per request: how often next() was invoked
    thrown,                     \* per request: the exception that escaped, or "none"
    calls                       \* per request: provider, SELECT and INSERT calls issued

vars == <<__mapAccessToken2UserData, site_user, pc, url, body, accessToken, session,
          userDataFromFacebook, userData, locals, sent, nextCalls, thrown, calls>>

NoCalls == [facebook |-> 0, select |-> 0, insert |-> 0]

Init ==
    /\ __mapAccessToken2UserData = [k \in {} |-> NULL]
    /\ site_user = <<>>
    /\ pc = [r \in Reqs |-> "idle"]
    /\ url = [r \in Reqs |-> ""]
    /\ body = [r \in Reqs |-> UNDEFINED]
    /\ userDataFromFacebook = [r \in Reqs |-> NoResponse]
    /\ accessToken = [r \in Reqs |-> UNDEFINED]
    /\ session = [r \in Reqs |-> NoSession]
    /\ userData = [r \in Reqs |-> NULL]
    /\ locals = [r \in Reqs |-> NULL]
    /\ sent = [r \in Reqs |-> ""]
    /\ nextCalls = [r \in Reqs |-> 0]
    /\ thrown = [r \in Reqs |-> "none"]
    /\ calls = [r \in Reqs |-> NoCalls]

\* ------------------------------------------------------------------ pure functions

__isLogoutRoute(reqUrl) == reqUrl = LogoutUrl

\* Mutant: the session's token is looked at first.
ExtractAccessToken_SessionFirst(reqBody, sess) ==
    IF sess.present /\ sess.hasUser /\ Truthy(sess.facebookAccessToken)
    THEN sess.facebookAccessToken
    ELSE IF Truthy(reqBody) THEN reqBody ELSE UNDEFINED

\* Lines 251-255: the body's token if truthy, else the session's if truthy,
\* else accessToken stays undefined.
ExtractAccessToken(reqBody, sess) ==
    IF Truthy(reqBody) THEN reqBody
    ELSE IF sess.present /\ sess.hasUser /\ Truthy(sess.facebookAccessToken)
         THEN sess.facebookAccessToken
         ELSE UNDEFINED

\* JSON.parse of the response body: an object, or a SyntaxError.
JSONparses(resp) == resp.kind = "object"

\* Mutant: the email field is not required.
__isValidFacebookUserData_NoEmail(facebookUserData) ==
    /\ facebookUserData.id # MISSING
    /\ facebookUserData.name # MISSING

__isValidFacebookUserData(facebookUserData) ==
    /\ facebookUserData.id # MISSING
    /\ facebookUserData.name # MISSING
    /\ facebookUserData.email # MISSING

\* Mutant: name and email are stored in each other's place.
__formatUserDataAsInternal_Swapped(facebookUserData) ==
    [id |-> 0,
     facebookId |-> facebookUserData.id,
     fullName |-> facebookUserData.email,
     email |-> facebookUserData.name]

__formatUserDataAsInternal(facebookUserData) ==
    [id |-> 0,
     facebookId |-> facebookUserData.id,
     fullName |-> facebookUserData.name,
     email |-> facebookUserData.email]

\* Mutant: the cache is never consulted.
HasOwnProperty_Never(map, key) == FALSE

\* hasOwnProperty, assignment and delete on the cache object.
HasOwnProperty(map, key) == ToPropertyKey(key) \in DOMAIN map

PutProperty(map, key, val) ==
    [k \in DOMAIN map \cup {ToPropertyKey(key)} |->
        IF k = ToPropertyKey(key) THEN val ELSE map[k]]

\* Mutant: delete removes nothing.
DeleteProperty_Nothing(map, key) == map

\* Mutant: delete empties the object.
DeleteProperty_All(map, key) == [k \in {} |-> NULL]

DeleteProperty(map, key) ==
    [k \in DOMAIN map \ {ToPropertyKey(key)} |-> map[k]]

\* Mutant: the WHERE clause matches nothing.
RowsWithFacebookId_None(facebookId) == {}

\* The rows the SELECT of __getUserFromDb matches.
RowsWithFacebookId(facebookId) ==
    {i \in 1..Len(site_user) : site_user[i].facebookId = facebookId}

\* Mutant: session.user is left in the session.
DeleteSessionUser_Keep(sess) == sess

\* session.user deleted, if there is a session with a user (lines 296-298, 307-309).
DeleteSessionUser(sess) ==
    IF sess.present /\ sess.hasUser
    THEN [sess EXCEPT !.hasUser = FALSE, !.facebookAccessToken = UNDEFINED]
    ELSE sess

\* Mutant: the second .then stores whatever reaches it.
CacheIfResolved_Always(map, token, record) == PutProperty(map, token, record)

\* Lines 65-72, the second .then of the resolver: a non-null record is stored
\* under the token and returned; null is passed on and nothing is stored.
CacheIfResolved(map, token, record) ==
    IF record # NULL THEN PutProperty(map, token, record) ELSE map

\* ------------------------------------------------------------------ actions

\* What a request leaves behind is wiped when its slot takes the next request.
Fresh(r, tok, sess, response) ==
    /\ accessToken' = [accessToken EXCEPT ![r] = tok]
    /\ session' = [session EXCEPT ![r] = sess]
    /\ userDataFromFacebook' = [userDataFromFacebook EXCEPT ![r] = NoResponse]
    /\ locals' = [locals EXCEPT ![r] = NULL]
    /\ sent' = [sent EXCEPT ![r] = response]

\* Lines 257-261: the logout route. The cache entry of the extracted token is
\* deleted, then req.session.destroy() is called: a TypeError when the request
\* has no session, which leaves the function before next() is reached.
LogoutBranch(r, tok, sess, nextThrows) ==
    /\ __mapAccessToken2UserData' = DeleteProperty(__mapAccessToken2UserData, tok)
    /\ IF ~sess.present
       THEN /\ Fresh(r, tok, sess, "")
            /\ nextCalls' = [nextCalls EXCEPT ![r] = 0]
            /\ thrown' = [thrown EXCEPT ![r] = "TypeError"]
       ELSE /\ Fresh(r, "", [sess EXCEPT !.destroyed = TRUE], "")
            /\ nextCalls' = [nextCalls EXCEPT ![r] = 1]
            /\ thrown' = [thrown EXCEPT ![r] = IF nextThrows THEN "downstream" ELSE "none"]
    /\ pc' = [pc EXCEPT ![r] = "done"]
    /\ userData' = [userData EXCEPT ![r] = NULL]
    /\ calls' = [calls EXCEPT ![r] = NoCalls]
    /\ UNCHANGED site_user

\* Lines 263-264 with 46-51: a token was extracted. A cached token resolves to
\* the cached record at once; any other token starts the Graph API request.
ResolveBranch(r, tok, sess) ==
    /\ Fresh(r, tok, sess, "")
    /\ nextCalls' = [nextCalls EXCEPT ![r] = 0]
    /\ thrown' = [thrown EXCEPT ![r] = "none"]
    /\ IF HasOwnProperty(__mapAccessToken2UserData, tok)
       THEN /\ pc' = [pc EXCEPT ![r] = "resolved"]
            /\ userData' = [userData EXCEPT ![r] =
                                __mapAccessToken2UserData[ToPropertyKey(tok)]]
            /\ calls' = [calls EXCEPT ![r] = NoCalls]
       ELSE /\ pc' = [pc EXCEPT ![r] = "awaitFacebook"]
            /\ userData' = [userData EXCEPT ![r] = NULL]
            /\ calls' = [calls EXCEPT ![r] = [NoCalls EXCEPT !.facebook = 1]]
    /\ UNCHANGED <<__mapAccessToken2UserData, site_user>>

\* Lines 306-315: no token and not the logout route.
NoTokenBranch(r, tok, sess) ==
    /\ Fresh(r, tok, DeleteSessionUser(sess), "LOGIN_REQUIRED")
    /\ nextCalls' = [nextCalls EXCEPT ![r] = 0]
    /\ thrown' = [thrown EXCEPT ![r] = "none"]
    /\ pc' = [pc EXCEPT ![r] = "done"]
    /\ userData' = [userData EXCEPT ![r] = NULL]
    /\ calls' = [calls EXCEPT ![r] = NoCalls]
    /\ UNCHANGED <<__mapAccessToken2UserData, site_user>>

\* Lines 247-316, the synchronous body of the middleware for one request.
facebookAuthMiddleware(r, reqUrl, reqBody, sess, nextThrows) ==
    /\ pc[r] \in {"idle", "done"}
    /\ url' = [url EXCEPT ![r] = reqUrl]
    /\ body' = [body EXCEPT ![r] = reqBody]
    /\ LET tok == ExtractAccessToken(reqBody, sess) IN
       IF __isLogoutRoute(reqUrl) THEN LogoutBranch(r, tok, sess, nextThrows)
       ELSE IF Truthy(tok) THEN ResolveBranch(r, tok, sess)
       ELSE NoTokenBranch(r, tok, sess)

\* Lines 53-63, 65-72 and 74-77: the Graph API request settled. A rejection and
\* a body JSON.parse throws on reach the .catch, which returns null. A payload
\* that is not valid makes the first .then return null, which the second .then
\* passes on. A valid payload is formatted and __saveUserToDb issues the SELECT.
FacebookResponse(r, resp) ==
    /\ pc[r] = "awaitFacebook"
    /\ userDataFromFacebook' = [userDataFromFacebook EXCEPT ![r] = resp]
    /\ IF ~JSONparses(resp)
       THEN /\ userData' = [userData EXCEPT ![r] = NULL]
            /\ pc' = [pc EXCEPT ![r] = "resolved"]
            /\ UNCHANGED <<__mapAccessToken2UserData, calls>>
       ELSE IF __isValidFacebookUserData(resp)
       THEN /\ userData' = [userData EXCEPT ![r] = __formatUserDataAsInternal(resp)]
            /\ pc' = [pc EXCEPT ![r] = "awaitSelect"]
            /\ calls' = [calls EXCEPT ![r].select = @ + 1]
            /\ UNCHANGED __mapAccessToken2UserData
       ELSE /\ userData' = [userData EXCEPT ![r] = NULL]
            /\ __mapAccessToken2UserData' =
                   CacheIfResolved(__mapAccessToken2UserData, accessToken[r], NULL)
            /\ pc' = [pc EXCEPT ![r] = "resolved"]
            /\ UNCHANGED calls
    /\ UNCHANGED <<site_user, url, body, accessToken, session,
                   locals, sent, nextCalls, thrown>>

\* Mutant: the SELECT matches no row.
__getUserFromDb_Never(facebookId) == {NoRow}

\* Lines 181-194: what the SELECT ... LIMIT 1 can yield for a facebookId: one
\* of the matching rows, or the object without id when none matches.
__getUserFromDb(facebookId) ==
    IF RowsWithFacebookId(facebookId) = {}
    THEN {NoRow}
    ELSE {site_user[i] : i \in RowsWithFacebookId(facebookId)}

\* Lines 161-167 (and 65-77): the SELECT settled. A rejection ends the resolver
\* with null. A row with an id is the result: it is cached and returned. With
\* no id, __addUserToDb issues the INSERT.
SelectResult(r, ok) ==
    /\ pc[r] = "awaitSelect"
    /\ IF ~ok
       THEN /\ userData' = [userData EXCEPT ![r] = NULL]
            /\ pc' = [pc EXCEPT ![r] = "resolved"]
            /\ UNCHANGED <<__mapAccessToken2UserData, calls>>
       ELSE \E user \in __getUserFromDb(userData[r].facebookId) :
              IF user.id = 0
              THEN /\ pc' = [pc EXCEPT ![r] = "awaitInsert"]
                   /\ calls' = [calls EXCEPT ![r].insert = @ + 1]
                   /\ UNCHANGED <<__mapAccessToken2UserData, userData>>
              ELSE /\ userData' = [userData EXCEPT ![r] = user]
                   /\ __mapAccessToken2UserData' =
                          CacheIfResolved(__mapAccessToken2UserData, accessToken[r], user)
                   /\ pc' = [pc EXCEPT ![r] = "resolved"]
                   /\ UNCHANGED calls
    /\ UNCHANGED <<site_user, url, body, accessToken, session, userDataFromFacebook,
                   locals, sent, nextCalls, thrown>>

\* Mutant: the generated id is not copied into the record.
InsertedRow_NoId(record) == record

\* Lines 219-222: the row the INSERT ... RETURNING id adds, and the record
\* __addUserToDb returns: the formatted profile with the generated id.
InsertedRow(record) == [record EXCEPT !.id = Len(site_user) + 1]

\* Lines 217-227 and 65-72: the INSERT settled. On success the table has the
\* new row and the record, now with its id, reaches the second .then; on
\* failure __addUserToDb returns null, which reaches the second .then too.
InsertResult(r, ok) ==
    /\ pc[r] = "awaitInsert"
    /\ IF ok /\ Len(site_user) < MaxRows
       THEN /\ site_user' = Append(site_user, InsertedRow(userData[r]))
            /\ userData' = [userData EXCEPT ![r] = InsertedRow(userData[r])]
            /\ __mapAccessToken2UserData' =
                   CacheIfResolved(__mapAccessToken2UserData, accessToken[r],
                                   InsertedRow(userData[r]))
       ELSE /\ userData' = [userData EXCEPT ![r] = NULL]
            /\ __mapAccessToken2UserData' =
                   CacheIfResolved(__mapAccessToken2UserData, accessToken[r], NULL)
            /\ UNCHANGED site_user
    /\ pc' = [pc EXCEPT ![r] = "resolved"]
    /\ UNCHANGED <<url, body, accessToken, session, userDataFromFacebook, locals, sent,
                   nextCalls, thrown, calls>>

\* Mutant: session.save is called without the token having been stored.
SaveTokenInSession_NoToken(sess, tok) ==
    IF sess.present THEN [sess EXCEPT !.save = "pending"] ELSE sess

\* Lines 280-288: the token is put into the session and session.save is called.
SaveTokenInSession(sess, tok) ==
    IF sess.present
    THEN [sess EXCEPT !.hasUser = TRUE, !.facebookAccessToken = tok, !.save = "pending"]
    ELSE sess

\* Lines 266-291: the middleware's .then callback. Null throws LOGIN_REQUIRED;
\* a record is copied to res.locals.metisoft.user, the session is updated and
\* next() is called. An error raised by next() rejects the chain as well.
MiddlewareThen(r, nextThrows) ==
    /\ pc[r] = "resolved"
    /\ IF userData[r] = NULL
       THEN /\ pc' = [pc EXCEPT ![r] = "rejected"]
            /\ UNCHANGED <<locals, session, nextCalls>>
       ELSE /\ locals' = [locals EXCEPT ![r] = userData[r]]
            /\ session' = [session EXCEPT ![r] = SaveTokenInSession(@, accessToken[r])]
            /\ nextCalls' = [nextCalls EXCEPT ![r] = @ + 1]
            /\ pc' = [pc EXCEPT ![r] = IF nextThrows THEN "rejected" ELSE "done"]
    /\ UNCHANGED <<__mapAccessToken2UserData, site_user, url, body, accessToken,
                   userDataFromFacebook, userData, sent, thrown, calls>>

\* Lines 293-304: the middleware's .catch callback.
MiddlewareCatch(r) ==
    /\ pc[r] = "rejected"
    /\ session' = [session EXCEPT ![r] = DeleteSessionUser(@)]
    /\ sent' = [sent EXCEPT ![r] = "LOGIN_REQUIRED"]
    /\ pc' = [pc EXCEPT ![r] = "done"]
    /\ UNCHANGED <<__mapAccessToken2UserData, site_user, url, body, accessToken,
                   userDataFromFacebook, userData, locals, nextCalls, thrown, calls>>

\* Lines 283-287: the callback of session.save; an error is logged, no more.
SessionSaveCallback(r, error) ==
    /\ session[r].save = "pending"
    /\ session' = [session EXCEPT ![r].save = IF error THEN "failed" ELSE "saved"]
    /\ UNCHANGED <<__mapAccessToken2UserData, site_user, pc, url, body, accessToken,
                   userDataFromFacebook, userData, locals, sent, nextCalls, thrown, calls>>

\* One callback of request r, with the request's shape drawn from the given sets.
Step(r, bodies, sessions, responses) ==
    \/ \E reqUrl \in Urls, reqBody \in bodies, sess \in sessions, nextThrows \in BOOLEAN :
          facebookAuthMiddleware(r, reqUrl, reqBody, sess, nextThrows)
    \/ \E resp \in responses : FacebookResponse(r, resp)
    \/ \E ok \in BOOLEAN : SelectResult(r, ok)
    \/ \E ok \in BOOLEAN : InsertResult(r, ok)
    \/ \E nextThrows \in BOOLEAN : MiddlewareThen(r, nextThrows)
    \/ MiddlewareCatch(r)
    \/ \E error \in BOOLEAN : SessionSaveCallback(r, error)

\* Requests of every shape, each served to its end before the next arrives.
Next == Step(1, BodyTokens, Sessions, FacebookResponses)

Spec == Init /\ [][Next]_vars

\* Requests in flight at the same time, their callbacks interleaved in any
\* order. The token comes in the body; the session is present and holds no user.
RaceSessions == {Session(FALSE, UNDEFINED)}

RaceResponses ==
    {resp \in FacebookResponses :
        \/ resp.kind = "rejected"
        \/ resp.kind = "object" /\ resp.id = "F1" /\ resp.name = "Ann"
        \/ resp.kind = "object" /\ resp.id = "F2"}

\* The request and response objects of a finished request are dropped. They
\* are read by no other request, so dropping them before the next callback
\* runs (see NextRace) loses no behaviour of the cache, the table or the
\* requests still in flight.
Release(r) ==
    /\ pc[r] = "done"
    /\ pc' = [pc EXCEPT ![r] = "idle"]
    /\ url' = [url EXCEPT ![r] = ""]
    /\ body' = [body EXCEPT ![r] = UNDEFINED]
    /\ accessToken' = [accessToken EXCEPT ![r] = UNDEFINED]
    /\ session' = [session EXCEPT ![r] = NoSession]
    /\ userDataFromFacebook' = [userDataFromFacebook EXCEPT ![r] = NoResponse]
    /\ userData' = [userData EXCEPT ![r] = NULL]
    /\ locals' = [locals EXCEPT ![r] = NULL]
    /\ sent' = [sent EXCEPT ![r] = ""]
    /\ nextCalls' = [nextCalls EXCEPT ![r] = 0]
    /\ thrown' = [thrown EXCEPT ![r] = "none"]
    /\ calls' = [calls EXCEPT ![r] = NoCalls]
    /\ UNCHANGED <<__mapAccessToken2UserData, site_user>>

NextRace ==
    \E r \in Reqs :
        \/ Release(r)
        \/ /\ \A q \in Reqs : pc[q] # "done"
           /\ Step(r, Tokens \cup {UNDEFINED}, RaceSessions, RaceResponses)

SpecRace == Init /\ [][NextRace]_vars

\* The store with a UNIQUE constraint on site_user.facebook_user_id, and no
\* other failure: a SELECT is always answered, and an INSERT is rejected (line
\* 224: __addUserToDb returns null) exactly when the table already holds a row
\* with the facebookId.
UniqueStore ==
    \A r \in Reqs :
        /\ (pc[r] = "awaitSelect" /\ pc'[r] = "resolved") => userData'[r] # NULL
        /\ (pc[r] = "awaitInsert" /\ pc'[r] = "resolved") =>
              (userData'[r] = NULL <=> RowsWithFacebookId(userData[r].facebookId) # {})

\* The interleaved requests of SpecRace against that store.
NextUnique == NextRace /\ UniqueStore

SpecUnique == Init /\ [][NextUnique]_vars

\* A callback of the resolver of request r: the Graph API request, the SELECT
\* or the INSERT settles.
ResolverCallback(r) ==
    \/ \E resp \in RaceResponses : FacebookResponse(r, resp)
    \/ \E ok \in BOOLEAN : SelectResult(r, ok)
    \/ \E ok \in BOOLEAN : InsertResult(r, ok)

\* SpecRace, and in addition the resolvers in flight go on while the request
\* object of a handled logout is still there: as long as it is, every
\* resolution in flight started before that logout, since no request is taken
\* in before the finished one is dropped.
NextLogoutRace ==
    \/ NextRace
    \/ \E r, q \in Reqs :
          /\ pc[q] = "done" /\ url[q] = LogoutUrl
          /\ ResolverCallback(r)

SpecLogoutRace == Init /\ [][NextLogoutRace]_vars

\* ------------------------------------------------------------------ vocabulary of the claims

Cached(t) == t \in DOMAIN __mapAccessToken2UserData

\* The step in which the middleware takes a request in and calls the resolver.
ResolutionStarts(r) ==
    /\ pc[r] \in {"idle", "done"}
    /\ pc'[r] \in {"awaitFacebook", "resolved"}

\* The step in which the middleware takes in a logout request whose extracted
\* token is t.
LogoutOf(r, t) ==
    /\ pc[r] \in {"idle", "done"}
    /\ pc'[r] = "done"
    /\ url'[r] = LogoutUrl
    /\ ExtractAccessToken(body'[r], session'[r]) = t

\* The resolver of request r has settled, and it had gone to the provider.
ResolvedFresh(r) ==
    /\ pc[r] = "resolved"
    /\ userDataFromFacebook[r] # NoResponse

\* The resolver of request r has settled from the cache.
ResolvedFromCache(r) ==
    /\ pc[r] = "resolved"
    /\ userDataFromFacebook[r] = NoResponse

HasAllFields(resp) ==
    resp.kind = "object" /\ resp.id # MISSING /\ resp.name # MISSING /\ resp.email # MISSING

\* ------------------------------------------------------------------ C1

C1_CallsOfFreshResolution ==
    \A r \in Reqs :
        /\ pc[r] = "awaitFacebook" => calls[r] = [facebook |-> 1, select |-> 0, insert |-> 0]
        /\ ResolvedFresh(r) =>
              /\ calls[r].facebook = 1
              /\ calls[r].select = (IF HasAllFields(userDataFromFacebook[r]) THEN 1 ELSE 0)
              /\ calls[r].insert <= 1
              /\ userData[r] # NULL =>
                    /\ Cached(accessToken[r])
                    /\ __mapAccessToken2UserData[accessToken[r]] = userData[r]

C1_Step ==
    \A r \in Reqs :
        /\ ResolutionStarts(r) /\ ~Cached(accessToken'[r]) =>
              /\ pc'[r] = "awaitFacebook"
              /\ calls'[r].facebook = 1
        /\ ResolutionStarts(r) /\ Cached(accessToken'[r]) =>
              /\ pc'[r] = "resolved"
              /\ userData'[r] = __mapAccessToken2UserData[accessToken'[r]]
              /\ calls'[r] = NoCalls
              /\ UNCHANGED <<__mapAccessToken2UserData, site_user>>
        /\ \A t \in DOMAIN __mapAccessToken2UserData :
              \/ /\ t \in DOMAIN __mapAccessToken2UserData'
                 /\ __mapAccessToken2UserData'[t] = __mapAccessToken2UserData[t]
              \/ \E q \in Reqs : LogoutOf(q, t)

\* C1: with one request served at a time, resolving a token that is no cache
\* key issues exactly one provider call and, for a complete payload, exactly
\* one __saveUserToDb (one SELECT, at most one INSERT); when it succeeds the
\* record is cached under the token, stays there unchanged until a logout of
\* that token, and every resolution of the token that starts meanwhile returns
\* that record with no provider call and no store call.
C1_ResolveOnceThenCached == []C1_CallsOfFreshResolution /\ [][C1_Step]_vars

\* A resolution served from the cache has settled.
C1_Witness ==
    \E r \in Reqs :
        /\ ResolvedFromCache(r)
        /\ calls[r] = NoCalls
        /\ userData[r] # NULL
        /\ Cached(accessToken[r])
        /\ userData[r] = __mapAccessToken2UserData[accessToken[r]]

\* ------------------------------------------------------------------ C2

InFlight(r) == pc[r] \in {"awaitFacebook", "awaitSelect", "awaitInsert"}

\* The resolver of request r went to the provider and settled with null.
FailedResolution(r) ==
    /\ pc[r] \in {"resolved", "rejected", "done"}
    /\ userDataFromFacebook[r] # NoResponse
    /\ userData[r] = NULL

C2_FailureIsNullAndUncached ==
    \A r \in Reqs :
        /\ (pc[r] \in {"resolved", "rejected", "done"}
              /\ userDataFromFacebook[r] # NoResponse
              /\ ~HasAllFields(userDataFromFacebook[r])) => userData[r] = NULL
        /\ FailedResolution(r) => ~Cached(accessToken[r])

C2_Step ==
    \A r \in Reqs :
        /\ InFlight(r) => (InFlight(r)' \/ pc'[r] = "resolved")
        /\ (InFlight(r) /\ pc'[r] = "resolved" /\ userData'[r] = NULL) =>
              UNCHANGED <<__mapAccessToken2UserData, site_user>>
        /\ (FailedResolution(r) /\ ResolutionStarts(r) /\ accessToken'[r] = accessToken[r]) =>
              /\ pc'[r] = "awaitFacebook"
              /\ calls'[r].facebook = 1

\* C2: a resolution that fails (the provider call is rejected, the body is
\* not JSON or lacks a field, the SELECT or the INSERT fails) settles the
\* resolver with null, never with a rejection, leaves the cache as it was
\* with no entry for the token, and the next resolution of that token goes
\* to the provider again.
C2_NoNegativeCaching == []C2_FailureIsNullAndUncached /\ [][C2_Step]_vars

\* The INSERT of a resolution failed and the request was answered.
C2_Witness ==
    \E r \in Reqs :
        /\ FailedResolution(r)
        /\ pc[r] = "done"
        /\ calls[r] = [facebook |-> 1, select |-> 1, insert |-> 1]
        /\ ~Cached(accessToken[r])

\* ------------------------------------------------------------------ C3

IncompletePayload(r) ==
    /\ userDataFromFacebook[r].kind = "object"
    /\ ~HasAllFields(userDataFromFacebook[r])

C4_IncompleteIsUnauthenticated ==
    \A r \in Reqs :
        IncompletePayload(r) =>
            /\ pc[r] \in {"resolved", "rejected", "done"}
            /\ userData[r] = NULL
            /\ calls[r] = [facebook |-> 1, select |-> 0, insert |-> 0]
            /\ ~Cached(accessToken[r])
            /\ locals[r] = NULL
            /\ nextCalls[r] = 0
            /\ pc[r] = "done" =>
                  /\ sent[r] = "LOGIN_REQUIRED"
                  /\ ~session[r].hasUser

C4_Step ==
    \A r \in Reqs :
        (pc[r] = "awaitFacebook" /\ IncompletePayload(r)') =>
            UNCHANGED <<__mapAccessToken2UserData, site_user>>

\* C4: a provider payload that lacks id, name or email makes the resolver
\* return null with no SELECT and no INSERT issued, no row added and the cache
\* left alone; the request is answered LOGIN_REQUIRED, next() is not called,
\* nothing is put on res.locals and session.user is removed.
C4_IncompletePayloadRejected == []C4_IncompleteIsUnauthenticated /\ [][C4_Step]_vars

\* A payload with id and name but no email was answered LOGIN_REQUIRED on a
\* request that has a session.
C4_Witness ==
    \E r \in Reqs :
        /\ pc[r] = "done"
        /\ userDataFromFacebook[r] =
              [kind |-> "object", id |-> "F1", name |-> "Ann", email |-> MISSING]
        /\ session[r].present
        /\ sent[r] = "LOGIN_REQUIRED"

\* ------------------------------------------------------------------ C5

\* The ids of the rows of the table with facebookId f.
StoredIds(f) == {i \in 1..Len(site_user) : site_user[i].facebookId = f}

C5_FoundRowIsResult ==
    \A r \in Reqs :
        /\ pc[r] = "awaitInsert" => StoredIds(userData[r].facebookId) = {}
        /\ (ResolvedFresh(r) /\ userData[r] # NULL /\ calls[r].insert = 0) =>
              /\ userData[r].id \in StoredIds(userDataFromFacebook[r].id)
              /\ userData[r] = site_user[userData[r].id]
              /\ Cached(accessToken[r])
              /\ __mapAccessToken2UserData[accessToken[r]] = userData[r]

C5_Step ==
    \A r \in Reqs :
        (pc[r] = "awaitSelect" /\ StoredIds(userData[r].facebookId) # {}) =>
            /\ pc'[r] = "resolved"
            /\ calls'[r].insert = 0
            /\ site_user' = site_user
            /\ userData'[r] # NULL =>
                  /\ userData'[r].id \in StoredIds(userData[r].facebookId)
                  /\ userData'[r] = site_user[userData'[r].id]
                  /\ __mapAccessToken2UserData'[accessToken[r]] = userData'[r]

\* C5: when the table holds a row for the profile's facebookId, no INSERT is
\* issued and the table is left as it is; the record the SELECT returns, with
\* the stored id, email and fullName, is the resolver's result and is cached
\* under the token, whatever name and email the fetched profile carries.
C5_StoredRecordWins == []C5_FoundRowIsResult /\ [][C5_Step]_vars

\* A resolution returned the stored row although the profile just fetched
\* has another name and another email.
C5_Witness ==
    \E r \in Reqs :
        /\ ResolvedFresh(r)
        /\ userData[r] # NULL
        /\ calls[r] = [facebook |-> 1, select |-> 1, insert |-> 0]
        /\ userData[r].facebookId = userDataFromFacebook[r].id
        /\ userData[r].email # userDataFromFacebook[r].email
        /\ userData[r].fullName # userDataFromFacebook[r].name
        /\ __mapAccessToken2UserData[accessToken[r]] = userData[r]

\* ------------------------------------------------------------------ C6

\* The record the profile of request r gives once the store has assigned id.
RecordOf(resp, id) ==
    [id |-> id, facebookId |-> resp.id, email |-> resp.email, fullName |-> resp.name]

C6_InsertedRecordIsResult ==
    \A r \in Reqs :
        (ResolvedFresh(r) /\ userData[r] # NULL /\ calls[r].insert # 0) =>
            /\ calls[r].insert = 1
            /\ userData[r] = RecordOf(userDataFromFacebook[r], Len(site_user))
            /\ site_user[Len(site_user)] = userData[r]
            /\ StoredIds(userData[r].facebookId) = {userData[r].id}
            /\ Cached(accessToken[r])
            /\ __mapAccessToken2UserData[accessToken[r]] = userData[r]

C6_Step ==
    \A r \in Reqs :
        /\ (pc[r] = "awaitSelect" /\ StoredIds(userData[r].facebookId) = {}) =>
              \/ pc'[r] = "resolved" /\ userData'[r] = NULL /\ calls'[r].insert = 0
              \/ pc'[r] = "awaitInsert" /\ calls'[r].insert = 1
        /\ (pc[r] = "awaitInsert" /\ pc'[r] = "resolved" /\ userData'[r] # NULL) =>
              /\ site_user' = Append(site_user,
                     RecordOf(userDataFromFacebook[r], Len(site_user) + 1))
              /\ userData'[r] = RecordOf(userDataFromFacebook[r], Len(site_user) + 1)
        /\ (pc[r] = "awaitInsert" /\ pc'[r] = "resolved" /\ userData'[r] = NULL) =>
              site_user' = site_user

\* C6: when the table holds no row for the profile's facebookId, a resolution
\* served alone issues exactly one INSERT; the row it adds carries the
\* profile's facebookId, email and fullName and the id the store generated,
\* and that record is the resolver's result and is cached under the token.
C6_InsertOnceWithGeneratedId == []C6_InsertedRecordIsResult /\ [][C6_Step]_vars

\* Token T1, profile {id: F1, name: Ann, email: a@x.com}, no row for F1: the
\* INSERT returned an id and the record with that id is cached under T1.
C6_Witness ==
    \E r \in Reqs :
        /\ pc[r] = "resolved"
        /\ accessToken[r] = "T1"
        /\ calls[r] = [facebook |-> 1, select |-> 1, insert |-> 1]
        /\ userData[r] =
              [id |-> 1, facebookId |-> "F1", email |-> "a@x.com", fullName |-> "Ann"]
        /\ site_user = <<userData[r]>>
        /\ Cached("T1")
        /\ __mapAccessToken2UserData["T1"] = userData[r]

\* ------------------------------------------------------------------ C7

\* The middleware has handled a logout request of request slot r.
LogoutHandled(r) == pc[r] = "done" /\ url[r] = LogoutUrl

C7_LogoutDone ==
    \A r \in Reqs :
        LogoutHandled(r) =>
            /\ ~Cached(ToPropertyKey(ExtractAccessToken(body[r], session[r])))
            /\ session[r].present => session[r].destroyed
            /\ nextCalls[r] = 1
            /\ locals[r] = NULL
            /\ calls[r] = NoCalls

C7_Step ==
    \A r \in Reqs :
        (LogoutHandled(r) /\ ResolutionStarts(r)
           /\ accessToken'[r] = ExtractAccessToken(body[r], session[r])) =>
            /\ pc'[r] = "awaitFacebook"
            /\ calls'[r].facebook = 1

\* C7: a request to the logout route removes the cache entry of the token
\* extracted from it, destroys the session and calls next(), with nothing put
\* on res.locals and no provider or store call; the next resolution of that
\* token goes to the provider. The code does not call next() when the request
\* has no session.
C7_LogoutEvictsAndContinues == []C7_LogoutDone /\ [][C7_Step]_vars

\* ------------------------------------------------------------------ C8

\* C8: no exception raised in facebookAuthMiddleware escapes to its caller,
\* whatever the request's route, body and session and whatever the provider
\* and the store answer. (An error raised by next() itself on the logout
\* route, "downstream", is the caller's own and is not counted.) The code
\* raises a TypeError on a logout request that has no session.
C8_NoExceptionEscapes == \A r \in Reqs : thrown[r] # "TypeError"

\* ------------------------------------------------------------------ C9

\* Request r is not a logout and the middleware is done with it without a record.
Unresolved(r) ==
    /\ pc[r] = "done"
    /\ url[r] \in Urls \ {LogoutUrl}
    /\ userData[r] = NULL

C9_UnresolvedIsLoginRequired ==
    \A r \in Reqs :
        /\ Unresolved(r) =>
              /\ sent[r] = "LOGIN_REQUIRED"
              /\ ~session[r].hasUser
              /\ nextCalls[r] = 0
              /\ locals[r] = NULL
              /\ thrown[r] = "none"
              /\ ~Truthy(accessToken[r]) =>
                    calls[r] = NoCalls /\ userDataFromFacebook[r] = NoResponse
        /\ (pc[r] \in {"resolved", "rejected"} /\ userData[r] = NULL) =>
              nextCalls[r] = 0 /\ locals[r] = NULL

C9_Step ==
    \A r \in Reqs :
        (pc[r] \in {"idle", "done"} /\ url'[r] \in Urls \ {LogoutUrl}
           /\ ~Truthy(ExtractAccessToken(body'[r], session[r]'))
           /\ <<pc[r], url[r], body[r], session[r]>>' # <<pc[r], url[r], body[r], session[r]>>) =>
            /\ pc'[r] = "done"
            /\ UNCHANGED <<__mapAccessToken2UserData, site_user>>

\* C9: every request that is not a logout and does not resolve to a record
\* (no token extracted, or the resolver returned null) ends the same way:
\* session.user is removed, {error: 'LOGIN_REQUIRED'} is sent, next() is not
\* called and nothing is put on res.locals; with no token extracted, no
\* provider call and no store call is made.
C9_FailurePathsConverge == []C9_UnresolvedIsLoginRequired /\ [][C9_Step]_vars

\* A request with no token in the body and a session was answered
\* LOGIN_REQUIRED without any call.
C9_Witness ==
    \E r \in Reqs :
        /\ Unresolved(r)
        /\ body[r] = UNDEFINED
        /\ session[r].present
        /\ accessToken[r] = UNDEFINED
        /\ sent[r] = "LOGIN_REQUIRED"
        /\ calls[r] = NoCalls

\* ------------------------------------------------------------------ C10

C10_ResolvedIsPopulated ==
    \A r \in Reqs :
        /\ (pc[r] \in {"rejected", "done"} /\ userData[r] # NULL) =>
              /\ locals[r].id = userData[r].id
              /\ locals[r].facebookId = userData[r].facebookId
              /\ locals[r].email = userData[r].email
              /\ locals[r].fullName = userData[r].fullName
              /\ nextCalls[r] = 1
        /\ session[r].save # "none" => nextCalls[r] = 1

C10_Step ==
    \A r \in Reqs :
        /\ (pc[r] = "resolved" /\ userData[r] # NULL /\ pc'[r] # "resolved") =>
              /\ nextCalls'[r] = 1
              /\ locals'[r] = userData[r]
              /\ sent'[r] = ""
              /\ session[r].present =>
                    /\ session'[r].hasUser
                    /\ session'[r].facebookAccessToken = accessToken[r]
                    /\ session'[r].save = "pending"
              /\ ~session[r].present => session'[r] = session[r]
        /\ (session[r].save = "pending" /\ session'[r].save \in {"saved", "failed"}) =>
              UNCHANGED <<pc, sent, nextCalls, locals, thrown>>

Arrives(r) ==
    /\ pc[r] \in {"idle", "done"}
    /\ pc'[r] # "idle"
    /\ session'[r].save = "none"

SessionToken(sess) ==
    IF sess.present /\ sess.hasUser THEN sess.facebookAccessToken ELSE UNDEFINED

\* The token the claim expects to be used: the body's, else the session's.
PreferredToken(reqBody, sess) ==
    IF reqBody \notin {UNDEFINED, ""} THEN reqBody ELSE SessionToken(sess)

C11_TokenOfRequest ==
    \A r \in Reqs :
        /\ (pc[r] \in {"awaitFacebook", "awaitSelect", "awaitInsert", "resolved", "rejected"}) =>
              /\ accessToken[r] \in Tokens
              /\ body[r] \in Tokens => accessToken[r] = body[r]
              /\ calls[r].facebook <= 1
        /\ (pc[r] \in {"awaitFacebook", "awaitSelect", "awaitInsert", "resolved"}
              /\ body[r] \notin Tokens) => accessToken[r] = SessionToken(session[r])
        /\ (pc[r] = "done" /\ url[r] # LogoutUrl /\ nextCalls[r] = 0 /\ calls[r] = NoCalls
              /\ userDataFromFacebook[r] = NoResponse /\ accessToken[r] \notin Tokens) =>
              /\ body[r] \notin Tokens
              /\ SessionToken(session[r]) \notin Tokens
              /\ sent[r] = "LOGIN_REQUIRED"

C11_Step ==
    \A r \in Reqs :
        /\ (Arrives(r) /\ url'[r] # LogoutUrl) =>
              IF PreferredToken(body'[r], session'[r]) \in Tokens
              THEN /\ pc'[r] \in {"awaitFacebook", "resolved"}
                   /\ accessToken'[r] = PreferredToken(body'[r], session'[r])
                   /\ sent'[r] = ""
              ELSE /\ pc'[r] = "done"
                   /\ sent'[r] = "LOGIN_REQUIRED"
                   /\ nextCalls'[r] = 0
                   /\ calls'[r] = NoCalls
                   /\ UNCHANGED <<__mapAccessToken2UserData, site_user>>
        /\ (Arrives(r) /\ url'[r] = LogoutUrl) =>
              /\ DOMAIN __mapAccessToken2UserData' =
                     DOMAIN __mapAccessToken2UserData \ {PreferredToken(body'[r], session'[r])}
              /\ \A t \in DOMAIN __mapAccessToken2UserData' :
                     __mapAccessToken2UserData'[t] = __mapAccessToken2UserData[t]
        /\ (pc[r] \in {"awaitFacebook", "awaitSelect", "awaitInsert", "resolved", "rejected"}) =>
              /\ accessToken'[r] = accessToken[r]
              /\ body'[r] = body[r]
              /\ calls'[r].facebook = calls[r].facebook
              /\ pc'[r] # "awaitFacebook"
        /\ (pc[r] = "resolved" /\ userData[r] = NULL) => pc'[r] = "rejected"
        /\ pc[r] = "rejected" =>
              \/ pc'[r] = "rejected" /\ sent'[r] = sent[r]
              \/ pc'[r] = "done" /\ sent'[r] = "LOGIN_REQUIRED"

C12_Step ==
    \A t \in DOMAIN __mapAccessToken2UserData :
        t \notin DOMAIN __mapAccessToken2UserData' =>
            \E q \in Reqs :
                /\ Arrives(q)
                /\ url'[q] = LogoutUrl
                /\ PreferredToken(body'[q], session'[q]) = t

\* C12: with the callbacks of several requests interleaved, a key t of the
\* cache stops being a key only in a step in which the middleware takes in a
\* request on the logout route whose extracted token is t: no other step (a
\* request on another route, a resolution that fails or succeeds, a logout
\* with another token or with none) removes it.
C12_OnlyLogoutOfTheTokenEvicts == [][C12_Step]_vars

\* T1 is cached after a logout with T2 was handled and a resolution of T1
\* that was in flight failed.
C12_Witness ==
    /\ Cached("T1")
    /\ \E r, q \in Reqs :
          /\ LogoutHandled(r)
          /\ body[r] = "T2"
          /\ FailedResolution(q)
          /\ accessToken[q] = "T1"

\* ------------------------------------------------------------------ C13

\* Requests r and q both went to the provider with the same token, got the
\* same complete profile, and the resolvers of both have settled.
ConcurrentFirstTime(r, q) ==
    /\ r # q
    /\ ResolvedFresh(r) /\ ResolvedFresh(q)
    /\ accessToken[r] = accessToken[q]
    /\ HasAllFields(userDataFromFacebook[r])
    /\ userDataFromFacebook[q] = userDataFromFacebook[r]

\* C13: against a store that enforces uniqueness of facebookId (and does not
\* fail otherwise), when two requests verify the same uncached token at the
\* same time, each with its own provider call and its own SELECT, the table
\* ends with one row for the facebookId and the resolvers of both requests
\* settle with that row, so neither is answered LOGIN_REQUIRED.
C13_ConcurrentFirstTimeBenign ==
    \A r, q \in Reqs :
        ConcurrentFirstTime(r, q) =>
            /\ calls[r].facebook = 1 /\ calls[r].select = 1
            /\ Cardinality(StoredIds(userDataFromFacebook[r].id)) = 1
            /\ userData[r] # NULL
            /\ userData[r].id \in StoredIds(userDataFromFacebook[r].id)
            /\ userData[r] = userData[q]

\* ------------------------------------------------------------------ C14

\* Requests whose INSERT of a row with facebookId f is under way.
Inserting(f) == {r \in Reqs : pc[r] = "awaitInsert" /\ userData[r].facebookId = f}

C14_Step ==
    /\ \A r \in Reqs :
          (pc[r] = "awaitSelect" /\ pc'[r] = "awaitInsert") =>
              StoredIds(userData[r].facebookId) = {}
    /\ \A i \in 1..Len(site_user) : i <= Len(site_user') /\ site_user'[i] = site_user[i]
    /\ Len(site_user') <= Len(site_user) + 1
    /\ \A f \in FbIds :
          Cardinality(StoredIds(f)') > Cardinality(StoredIds(f)) =>
              \E r \in Inserting(f) : pc'[r] = "resolved"
    /\ \A f \in FbIds :
          (StoredIds(f) # {} /\ Inserting(f) = {}) =>
              /\ StoredIds(f)' = StoredIds(f)
              /\ Inserting(f)' = {}

C15_LogoutKeepsTokenOut ==
    \A q \in Reqs :
        LogoutHandled(q) => ~Cached(PreferredToken(body[q], session[q]))

\* ------------------------------------------------------------------ C16

C16_LogoutDone ==
    \A r \in Reqs :
        (LogoutHandled(r) /\ SessionToken(session[r]) \in Tokens) =>
            /\ body[r] \in {UNDEFINED, "", SessionToken(session[r])} =>
                  ~Cached(SessionToken(session[r]))
            /\ body[r] \in Tokens => ~Cached(body[r])

C16_Step ==
    \A r \in Reqs :
        (Arrives(r) /\ url'[r] = LogoutUrl /\ SessionToken(session'[r]) \in Tokens
           /\ body'[r] \in Tokens \ {SessionToken(session'[r])}) =>
            /\ (SessionToken(session'[r]) \in DOMAIN __mapAccessToken2UserData')
                  = Cached(SessionToken(session'[r]))
            /\ body'[r] \notin DOMAIN __mapAccessToken2UserData'

C17_NextExcludesLoginRequired ==
    \A r \in Reqs :
        nextCalls[r] >= 1 =>
            /\ nextCalls[r] = 1
            /\ sent[r] = ""
            /\ (url[r] # LogoutUrl /\ session[r].present) =>
                  /\ session[r].hasUser
                  /\ session[r].facebookAccessToken = accessToken[r]

\* ------------------------------------------------------------------ C18

\* C18: a request that has been handled to its end has reached one of the two
\* terminal outcomes, next() invoked or LOGIN_REQUIRED sent, and on the way
\* it issued at most one provider call, one SELECT and one INSERT.
C18_EndsWithOutcome ==
    \A r \in Reqs :
        /\ pc[r] = "done" => (nextCalls[r] >= 1 \/ sent[r] = "LOGIN_REQUIRED")
        /\ calls[r].facebook <= 1
        /\ calls[r].select <= 1
        /\ calls[r].insert <= 1

\* What does hold. Under SpecLive, where every callback of a request that is
\* due eventually runs (each provider and store call completes), a request
\* whose resolver was called ends with next() invoked or LOGIN_REQUIRED
\* sent; and a request handled by the synchronous body alone ends with one
\* of the two unless the TypeError of the logout route left the function.
Callbacks(r) ==
    \/ \E resp \in FacebookResponses : FacebookResponse(r, resp)
    \/ \E ok \in BOOLEAN : SelectResult(r, ok)
    \/ \E ok \in BOOLEAN : InsertResult(r, ok)
    \/ \E nextThrows \in BOOLEAN : MiddlewareThen(r, nextThrows)
    \/ MiddlewareCatch(r)

SpecLive == Spec /\ WF_vars(Callbacks(1))

C18_ResolverCalledEndsWithOutcome ==
    \A r \in Reqs :
        (pc[r] \in {"awaitFacebook", "awaitSelect", "awaitInsert", "resolved", "rejected"})
            ~> (pc[r] = "done" /\ (nextCalls[r] >= 1 \/ sent[r] = "LOGIN_REQUIRED"))

C18_OutcomeUnlessTypeError ==
    \A r \in Reqs :
        (pc[r] = "done" /\ thrown[r] # "TypeError") =>
            (nextCalls[r] >= 1 \/ sent[r] = "LOGIN_REQUIRED")

====
